---- MODULE Spec2Model ----
(***************************************************************************)
(* SMBus over a Linux I2C character device (package smbus).               *)
(*                                                                         *)
(* The model follows the Conn type of the options-aware source file       *)
(* (OpenWithOptions, backup/restore, forced addressing, block transfers)  *)
(* and the Open of the legacy source file.  The kernel side of the ioctl  *)
(* gateway is a mock adapter: one file handle with a selected address,    *)
(* and a register file per device address.                                *)
(***************************************************************************)
EXTENDS Integers, Sequences, FiniteSets, TLC

(***************************************************************************)
(* Program constants.                                                      *)
(***************************************************************************)
i2cSlave == 1795                \* 0x0703
i2cSlaveForce == 1798           \* 0x0706
i2cSMBus == 1824                \* 0x0720
i2cSMBusWrite == 0
i2cSMBusRead == 1
i2cSMBusByteData == 2
i2cSMBusWordData == 3
i2cSMBusI2CBlockData == 8
i2cSMBusBlockMax == 32

(***************************************************************************)
(* Bounds of the model.                                                    *)
(***************************************************************************)
\* Backup lists handed to OpenWithOptions have up to MaxBackup entries.
MaxBackup == 2
\* Caller buffers have every length 0..MaxSmallLen, and the two lengths
\* around the protocol maximum.
MaxSmallLen == 2

Addrs == {80, 81}               \* device addresses 0x50, 0x51
Regs == {16, 32}                \* registers 0x10, 0x20
BlockRegs == {16}               \* registers used for block transfers
Bytes == {171}                  \* byte values written by the caller: 0xAB
Words == {48879}                \* word values written by the caller: 0xBEEF
BufLens == (0..MaxSmallLen) \cup {i2cSMBusBlockMax, i2cSMBusBlockMax + 1}
\* Lengths a device may report in byte 0 of a block read, besides the
\* requested one.
ReportedLens == {0}

NoAddr == 0                     \* no address selected on a fresh handle
Nil == "nil"                    \* Go's nil error
NilSlice == <<-1>>              \* Go's nil slice, as opposed to []uint8{}
NoConn == [force |-> FALSE, backupRegs |-> <<>>, backupaddr |-> 0, valid |-> FALSE]

errSMBusBlockDataMax == "smbus: buffer slice too big"
errOptsNil == "opts is nil"
errBackupNotSupported == "option BackupRestoreRegs is not supported with OpenFile()"

(***************************************************************************)
(* Values.                                                                 *)
(***************************************************************************)
\* The caller's buffer of length n whose bytes count up from seed.
Buffer(seed, n) == [i \in 1..n |-> (seed + i - 1) % 256]
Zeros(n) == [i \in 1..n |-> 0]
\* The buffers the caller writes, and the ones it reads into.
WriteBuffer(n) == Buffer(160, n)
ReadBuffer(n) == Buffer(1, n)

\* A uint16 as it lies in memory behind unsafe.Pointer(&v), and back.
WordBytes(v) == <<v % 256, (v \div 256) % 256>>
BytesWord(b) == b[1] + 256 * b[2]

\* The first n bytes of s, padded with zeros.
Take(s, n) == [i \in 1..n |-> IF i <= Len(s) THEN s[i] ELSE 0]
Last(s) == s[Len(s)]

RECURSIVE SeqsUpTo(_, _)
SeqsUpTo(S, n) ==
    IF n = 0 THEN {<<>>}
    ELSE LET shorter == SeqsUpTo(S, n - 1)
         IN shorter \cup {Append(s, x) : s \in shorter, x \in S}

\* Every order in which a map over a subset of Regs may be iterated: an
\* order of all registers, of which the map's keys are kept.
RegOrders == {s \in SeqsUpTo(Regs, Cardinality(Regs)) :
                 Len(s) = Cardinality(Regs) /\ {s[i] : i \in DOMAIN s} = Regs}
KeysIn(order, m) == SelectSeq(order, LAMBDA r : r \in DOMAIN m)

\* What a register holds before anything is written: one byte that differs
\* from device to device and from register to register.
InitDev == [a \in Addrs |-> [r \in Regs |-> <<(a + r) % 256>>]]

(***************************************************************************)
(* The world an operation runs in: the file handle ("none", "open" or      *)
(* "closed"), the address selected on it, the devices' registers, and the  *)
(* system calls the operation has issued so far.                           *)
(***************************************************************************)
\* A system call as the adapter saw it: the control code and argument of an
\* ioctl, the transfer x behind the argument of an SMBus ioctl, the address
\* the handle pointed at when the call was made, the bytes behind x.ptr when
\* it returned, and its error.
NoCmd == [rw |-> 0, cmd |-> 0, len |-> 0, ptr |-> <<>>]
Entry(sys, code, arg, x, dev, out, err) ==
    [sys |-> sys, code |-> code, arg |-> arg, x |-> x, dev |-> dev,
     out |-> out, err |-> err]

\* The calls of one operation that fail are drawn beforehand: the set of
\* their positions among the operation's system calls.
Fails(w, fails) == (Len(w.log) + 1) \in fails
LastErr(w) == Last(w.log).err
LastOut(w) == Last(w.log).out

\* The adapter's answer to an SMBus transfer x at the selected device: the
\* registers after it and the bytes behind x.ptr after it.  A byte or word
\* write stores the bytes, a block write stores the bytes after the length
\* byte; a read fills the buffer from the register, a block read reports
\* `rep` in byte 0.
Payload(x) ==
    IF x.len = i2cSMBusI2CBlockData THEN Take(Tail(x.ptr), x.ptr[1]) ELSE x.ptr
Response(x, stored, rep) ==
    IF x.len = i2cSMBusI2CBlockData
    THEN <<rep>> \o Take(stored, x.ptr[1])
    ELSE Take(stored, Len(x.ptr))

\* ioctl(fd, i2cSlave | i2cSlaveForce, addr)
ioctlSelect(w, fails, code, arg) ==
    IF Fails(w, fails)
    THEN [w EXCEPT !.log = Append(@, Entry("ioctl", code, arg, NoCmd, w.sel, <<>>, "EBUSY"))]
    ELSE [w EXCEPT !.sel = arg,
                   !.log = Append(@, Entry("ioctl", code, arg, NoCmd, w.sel, <<>>, Nil))]

\* ioctl(fd, i2cSMBus, &cmd)
ioctlSMBus(w, fails, x, rep) ==
    IF Fails(w, fails)
    THEN [w EXCEPT !.log = Append(@, Entry("ioctl", i2cSMBus, 0, x, w.sel, x.ptr, "EIO"))]
    ELSE IF w.sel \notin Addrs
    THEN [w EXCEPT !.log = Append(@, Entry("ioctl", i2cSMBus, 0, x, w.sel, x.ptr, "ENXIO"))]
    ELSE IF x.rw = i2cSMBusWrite
    THEN [w EXCEPT !.dev[w.sel][x.cmd] = Payload(x),
                   !.log = Append(@, Entry("ioctl", i2cSMBus, 0, x, w.sel, x.ptr, Nil))]
    ELSE [w EXCEPT !.log = Append(@, Entry("ioctl", i2cSMBus, 0, x, w.sel,
                                           Response(x, w.dev[w.sel][x.cmd], rep), Nil))]

\* os.OpenFile("/dev/i2c-<bus>", O_RDWR, 0600)
osOpenFile(w, fails) ==
    IF Fails(w, fails)
    THEN [w EXCEPT !.log = Append(@, Entry("open", 0, 0, NoCmd, w.sel, <<>>, "ENOENT"))]
    ELSE [w EXCEPT !.handle = "open", !.sel = NoAddr,
                   !.log = Append(@, Entry("open", 0, 0, NoCmd, w.sel, <<>>, Nil))]

\* (*os.File).Close: the descriptor is released whatever close reports.
fClose(w, closeOk) ==
    [w EXCEPT !.handle = "closed",
              !.log = Append(@, Entry("close", 0, 0, NoCmd, w.sel, <<>>,
                                      IF closeOk THEN Nil ELSE "EINTR"))]

(***************************************************************************)
(* Conn: address selection and register transactions.                     *)
(***************************************************************************)
\* addr that selects the address the Conn was bound to, not the one asked for.
addrBound(c, w, fails, a) ==
    IF c.force
    THEN ioctlSelect(w, fails, i2cSlaveForce, IF c.backupaddr \in Addrs THEN c.backupaddr ELSE a)
    ELSE ioctlSelect(w, fails, i2cSlave, IF c.backupaddr \in Addrs THEN c.backupaddr ELSE a)

\* addr that never asks for the forced selection.
addrNormal(c, w, fails, a) == ioctlSelect(w, fails, i2cSlave, a)

addr(c, w, fails, a) ==
    IF c.force
    THEN ioctlSelect(w, fails, i2cSlaveForce, a)
    ELSE ioctlSelect(w, fails, i2cSlave, a)

I2cCmd(rw, cmd, len, ptr) == [rw |-> rw, cmd |-> cmd, len |-> len, ptr |-> ptr]
Result(w, err, v) == [w |-> w, err |-> err, v |-> v]

\* ReadReg that goes on to the transfer whatever the address-select returned.
ReadRegUnchecked(c, w, fails, a, reg) ==
    LET w1 == addr(c, w, fails, a)
        w2 == ioctlSMBus(w1, fails, I2cCmd(i2cSMBusRead, reg, i2cSMBusByteData, <<0>>), 0)
    IN Result(w2, LastErr(w2), LastOut(w2)[1])

ReadReg(c, w, fails, a, reg) ==
    LET w1 == addr(c, w, fails, a)
        w2 == ioctlSMBus(w1, fails, I2cCmd(i2cSMBusRead, reg, i2cSMBusByteData, <<0>>), 0)
    IN IF LastErr(w1) # Nil THEN Result(w1, LastErr(w1), 0)
       ELSE Result(w2, LastErr(w2), LastOut(w2)[1])

WriteReg(c, w, fails, a, reg, v) ==
    LET w1 == addr(c, w, fails, a)
        w2 == ioctlSMBus(w1, fails, I2cCmd(i2cSMBusWrite, reg, i2cSMBusByteData, <<v>>), 0)
    IN IF LastErr(w1) # Nil THEN Result(w1, LastErr(w1), 0)
       ELSE Result(w2, LastErr(w2), 0)

ReadWord(c, w, fails, a, reg) ==
    LET w1 == addr(c, w, fails, a)
        w2 == ioctlSMBus(w1, fails, I2cCmd(i2cSMBusRead, reg, i2cSMBusWordData, WordBytes(0)), 0)
    IN IF LastErr(w1) # Nil THEN Result(w1, LastErr(w1), 0)
       ELSE Result(w2, LastErr(w2), BytesWord(LastOut(w2)))

\* WriteWord that encodes its transfer in the byte size class.
WriteWordAsByte(c, w, fails, a, reg, v) ==
    LET w1 == addr(c, w, fails, a)
        w2 == ioctlSMBus(w1, fails, I2cCmd(i2cSMBusWrite, reg, i2cSMBusByteData, <<v % 256>>), 0)
    IN IF LastErr(w1) # Nil THEN Result(w1, LastErr(w1), 0)
       ELSE Result(w2, LastErr(w2), 0)

WriteWord(c, w, fails, a, reg, v) ==
    LET w1 == addr(c, w, fails, a)
        w2 == ioctlSMBus(w1, fails, I2cCmd(i2cSMBusWrite, reg, i2cSMBusWordData, WordBytes(v)), 0)
    IN IF LastErr(w1) # Nil THEN Result(w1, LastErr(w1), 0)
       ELSE Result(w2, LastErr(w2), 0)

Copy(dst, src) == [i \in 1..Len(dst) |-> IF i <= Len(src) THEN src[i] ELSE dst[i]]

\* ReadBlockData that copies from the length byte on.
ReadBlockDataFromLength(c, w, fails, a, reg, buf, rep) ==
    LET w1 == addr(c, w, fails, a)
        data == <<Len(buf) % 256>> \o Zeros(Len(buf))
        w2 == ioctlSMBus(w1, fails, I2cCmd(i2cSMBusRead, reg, i2cSMBusI2CBlockData, data), rep)
    IN IF Len(buf) > i2cSMBusBlockMax THEN Result(w, errSMBusBlockDataMax, buf)
       ELSE IF LastErr(w1) # Nil THEN Result(w1, LastErr(w1), buf)
       ELSE IF LastErr(w2) # Nil THEN Result(w2, LastErr(w2), buf)
       ELSE Result(w2, Nil, Copy(buf, SubSeq(LastOut(w2), 1, Len(buf))))

\* ReadBlockData that rejects a reported length other than the requested.
ReadBlockDataValidated(c, w, fails, a, reg, buf, rep) ==
    LET w1 == addr(c, w, fails, a)
        data == <<Len(buf) % 256>> \o Zeros(Len(buf))
        w2 == ioctlSMBus(w1, fails, I2cCmd(i2cSMBusRead, reg, i2cSMBusI2CBlockData, data), rep)
    IN IF Len(buf) > i2cSMBusBlockMax THEN Result(w, errSMBusBlockDataMax, buf)
       ELSE IF LastErr(w1) # Nil THEN Result(w1, LastErr(w1), buf)
       ELSE IF LastErr(w2) # Nil THEN Result(w2, LastErr(w2), buf)
       ELSE IF LastOut(w2)[1] # Len(buf) THEN Result(w2, "EPROTO", buf)
       ELSE Result(w2, Nil, Copy(buf, SubSeq(LastOut(w2), 2, Len(buf) + 1)))

ReadBlockData(c, w, fails, a, reg, buf, rep) ==
    LET w1 == addr(c, w, fails, a)
        data == <<Len(buf) % 256>> \o Zeros(Len(buf))
        w2 == ioctlSMBus(w1, fails, I2cCmd(i2cSMBusRead, reg, i2cSMBusI2CBlockData, data), rep)
    IN IF Len(buf) > i2cSMBusBlockMax THEN Result(w, errSMBusBlockDataMax, buf)
       ELSE IF LastErr(w1) # Nil THEN Result(w1, LastErr(w1), buf)
       ELSE IF LastErr(w2) # Nil THEN Result(w2, LastErr(w2), buf)
       ELSE Result(w2, Nil, Copy(buf, SubSeq(LastOut(w2), 2, Len(buf) + 1)))

\* WriteBlockData that checks the length after selecting the address.
WriteBlockDataLateCheck(c, w, fails, a, reg, buf) ==
    LET w1 == addr(c, w, fails, a)
        data == <<Len(buf) % 256>> \o Copy(Zeros(Len(buf)), buf)
        w2 == ioctlSMBus(w1, fails, I2cCmd(i2cSMBusWrite, reg, i2cSMBusI2CBlockData, data), 0)
    IN IF LastErr(w1) # Nil THEN Result(w1, LastErr(w1), buf)
       ELSE IF Len(buf) > i2cSMBusBlockMax THEN Result(w1, errSMBusBlockDataMax, buf)
       ELSE Result(w2, LastErr(w2), buf)

\* WriteBlockData that leaves byte 0 of the scratch buffer as allocated.
WriteBlockDataNoLength(c, w, fails, a, reg, buf) ==
    LET w1 == addr(c, w, fails, a)
        data == <<0>> \o Copy(Zeros(Len(buf)), buf)
        w2 == ioctlSMBus(w1, fails, I2cCmd(i2cSMBusWrite, reg, i2cSMBusI2CBlockData, data), 0)
    IN IF Len(buf) > i2cSMBusBlockMax THEN Result(w, errSMBusBlockDataMax, buf)
       ELSE IF LastErr(w1) # Nil THEN Result(w1, LastErr(w1), buf)
       ELSE Result(w2, LastErr(w2), buf)

WriteBlockData(c, w, fails, a, reg, buf) ==
    LET w1 == addr(c, w, fails, a)
        data == <<Len(buf) % 256>> \o Copy(Zeros(Len(buf)), buf)
        w2 == ioctlSMBus(w1, fails, I2cCmd(i2cSMBusWrite, reg, i2cSMBusI2CBlockData, data), 0)
    IN IF Len(buf) > i2cSMBusBlockMax THEN Result(w, errSMBusBlockDataMax, buf)
       ELSE IF LastErr(w1) # Nil THEN Result(w1, LastErr(w1), buf)
       ELSE Result(w2, LastErr(w2), buf)

SetAddr(c, w, fails, a) ==
    LET w1 == addr(c, w, fails, a) IN Result(w1, LastErr(w1), 0)

(***************************************************************************)
(* Conn: Close, which restores the backed-up registers first.  `order` is  *)
(* the order in which the backup map is iterated.                          *)
(***************************************************************************)
\* The restore loop that returns after its first write.
restoreOnce(c, w, fails, keys) ==
    IF keys = <<>> THEN w
    ELSE WriteReg(c, w, fails, c.backupaddr, Head(keys), c.backupRegs[Head(keys)]).w

RECURSIVE restore(_, _, _, _)
restore(c, w, fails, keys) ==
    IF keys = <<>> THEN w
    ELSE LET r == WriteReg(c, w, fails, c.backupaddr, Head(keys), c.backupRegs[Head(keys)])
         IN IF r.err # Nil THEN r.w
            ELSE restore(c, r.w, fails, Tail(keys))

\* Close that returns the error of a failed restore write.
CloseRestoreError(c, w, fails, closeOk, order) ==
    LET w0 == restore(c, w, fails, KeysIn(order, c.backupRegs))
        w1 == fClose(w0, closeOk)
    IN IF w0.log # w.log /\ LastErr(w0) # Nil THEN Result(w1, LastErr(w0), 0)
       ELSE Result(w1, LastErr(w1), 0)

Close(c, w, fails, closeOk, order) ==
    LET w1 == fClose(restore(c, w, fails, KeysIn(order, c.backupRegs)), closeOk)
    IN Result(w1, LastErr(w1), 0)

(***************************************************************************)
(* The open functions.  Options is a pointer: NilOpts is the nil pointer.  *)
(***************************************************************************)
Options(force, regs) == [isNil |-> FALSE, Force |-> force, BackupRestoreRegs |-> regs]
NilOpts == [isNil |-> TRUE, Force |-> FALSE, BackupRestoreRegs |-> NilSlice]
GoLen(s) == IF s = NilSlice THEN 0 ELSE Len(s)
Conn(force, regs, a) == [force |-> force, backupRegs |-> regs, backupaddr |-> a, valid |-> TRUE]
Opened(w, c, err) == [w |-> w, c |-> c, err |-> err]

\* OpenFileWithOptions that opens the device before it looks at the list.
OpenFileWithOptionsLateCheck(w, fails, opts) ==
    LET w1 == osOpenFile(w, fails)
    IN IF opts.isNil THEN Opened(w, NoConn, errOptsNil)
       ELSE IF LastErr(w1) # Nil THEN Opened(w1, NoConn, LastErr(w1))
       ELSE IF opts.BackupRestoreRegs # NilSlice /\ GoLen(opts.BackupRestoreRegs) > 0
       THEN Opened(w1, NoConn, errBackupNotSupported)
       ELSE Opened(w1, Conn(opts.Force, <<>>, 0), Nil)

OpenFileWithOptions(w, fails, opts) ==
    LET w1 == osOpenFile(w, fails)
    IN IF opts.isNil THEN Opened(w, NoConn, errOptsNil)
       ELSE IF opts.BackupRestoreRegs # NilSlice /\ GoLen(opts.BackupRestoreRegs) > 0
       THEN Opened(w, NoConn, errBackupNotSupported)
       ELSE IF LastErr(w1) # Nil THEN Opened(w1, NoConn, LastErr(w1))
       ELSE Opened(w1, Conn(opts.Force, <<>>, 0), Nil)

OpenFile(w, fails) == OpenFileWithOptions(w, fails, Options(FALSE, NilSlice))

\* The backup loop keyed by the position in the list, not by the register.
RECURSIVE backupByIndex(_, _, _, _, _, _, _)
backupByIndex(c, w, fails, a, regs, closeOk, order) ==
    IF regs = <<>> THEN Opened(w, c, Nil)
    ELSE LET r == ReadReg(c, w, fails, a, Head(regs))
         IN IF r.err # Nil
            THEN Opened(Close(c, r.w, fails, closeOk, order).w, NoConn, r.err)
            ELSE backupByIndex([c EXCEPT !.backupRegs =
                                   (Cardinality(DOMAIN c.backupRegs) :> r.v) @@ @],
                               r.w, fails, a, Tail(regs), closeOk, order)

\* The backup loop that returns at a failed read without closing.
RECURSIVE backupNoClose(_, _, _, _, _, _, _)
backupNoClose(c, w, fails, a, regs, closeOk, order) ==
    IF regs = <<>> THEN Opened(w, c, Nil)
    ELSE LET r == ReadReg(c, w, fails, a, Head(regs))
         IN IF r.err # Nil
            THEN Opened(r.w, NoConn, r.err)
            ELSE backupNoClose([c EXCEPT !.backupRegs = (Head(regs) :> r.v) @@ @],
                               r.w, fails, a, Tail(regs), closeOk, order)

\* The loop over opts.BackupRestoreRegs of OpenWithOptions.
RECURSIVE backup(_, _, _, _, _, _, _)
backup(c, w, fails, a, regs, closeOk, order) ==
    IF regs = <<>> THEN Opened(w, c, Nil)
    ELSE LET r == ReadReg(c, w, fails, a, Head(regs))
         IN IF r.err # Nil
            THEN Opened(Close(c, r.w, fails, closeOk, order).w, NoConn, r.err)
            ELSE backup([c EXCEPT !.backupRegs = (Head(regs) :> r.v) @@ @],
                        r.w, fails, a, Tail(regs), closeOk, order)

OpenWithOptions(w, fails, a, opts, closeOk, order) ==
    LET o == OpenFileWithOptions(w, fails, Options(opts.Force, NilSlice))
        w2 == addr(o.c, o.w, fails, a)
    IN IF opts.isNil THEN Opened(w, NoConn, errOptsNil)
       ELSE IF o.err # Nil THEN Opened(o.w, NoConn, o.err)
       ELSE IF LastErr(w2) # Nil
       THEN Opened(Close(o.c, w2, fails, closeOk, order).w, NoConn, LastErr(w2))
       ELSE IF opts.BackupRestoreRegs # NilSlice
       THEN backup([o.c EXCEPT !.backupaddr = a], w2, fails, a,
                   opts.BackupRestoreRegs, closeOk, order)
       ELSE Opened(w2, o.c, Nil)

Open(w, fails, a, closeOk, order) ==
    OpenWithOptions(w, fails, a, Options(FALSE, <<>>), closeOk, order)

\* Open of the legacy source file: no options, the normal control code.
LegacyOpen(w, fails, a) ==
    LET w1 == osOpenFile(w, fails)
        w2 == ioctlSelect(w1, fails, i2cSlave, a)
    IN IF LastErr(w1) # Nil THEN Opened(w1, NoConn, LastErr(w1))
       ELSE IF LastErr(w2) # Nil THEN Opened(w2, NoConn, LastErr(w2))
       ELSE Opened(w2, Conn(FALSE, <<>>, 0), Nil)

(***************************************************************************)
(* State.                                                                  *)
(*   conn     the Conn the caller holds (NoConn: none)                     *)
(*   handle   the file handle behind conn.f: "none", "open", "closed"      *)
(*   sel      the address selected on the handle                           *)
(*   dev      the registers of every device on the bus                     *)
(*   call     the last operation the caller invoked, with what it returned *)
(*   log      the system calls that operation issued, in order             *)
(*   written  history: per address and register, the size class and value  *)
(*            of the last write the caller completed there                 *)
(*   captured history: what the open function that made conn read from the *)
(*            backup registers, and the address the reads were sent to     *)
(*   callers  the goroutines that share conn: whether they serialise their *)
(*            calls with a mutex, who holds it, and for each goroutine the *)
(*            call it is in and how far it got                             *)
(***************************************************************************)
VARIABLES conn, handle, sel, dev, call, log, written, captured, callers

vars == <<conn, handle, sel, dev, call, log, written, captured, callers>>

World == [handle |-> handle, sel |-> sel, dev |-> dev, log |-> <<>>]

Call(op, a, reg, arg, opts, err, ret) ==
    [op |-> op, addr |-> a, reg |-> reg, arg |-> arg, opts |-> opts,
     err |-> err, ret |-> ret]

NoWrite == [len |-> 0, data |-> <<>>]

\* The positions of the calls that fail: none or one of the first n for an
\* operation that returns at its first failed call, and none, one or two
\* for OpenWithOptions, whose Close on the way out runs on after one.
FailOne(n) == {{}} \cup {{i} : i \in 1..n}
FailTwo(n) == {{}} \cup {{i, j} : i \in 1..n, j \in 1..n}

BackupLists(R) == {NilSlice} \cup SeqsUpTo(R, MaxBackup)
AllOptions(R) == {NilOpts} \cup {Options(f, l) : f \in BOOLEAN, l \in BackupLists(R)}
MaxCalls(regs) == IF GoLen(regs) = 0 THEN 2 ELSE 4 * GoLen(regs)

\* What the caller's arguments are drawn from: the registers and the buffers.
Inputs(R, L) == [regs |-> R, lens |-> L]
Full == Inputs(Regs, BufLens)
OneReg == Inputs(BlockRegs, BufLens)
Tiny == Inputs(BlockRegs, {1, i2cSMBusBlockMax + 1})

\* The goroutines that share one Conn, and the call each of them is in.
Callers == {1, 2}
NoReq == [op |-> "none", addr |-> NoAddr, reg |-> 0]
NoCallers(locking) ==
    [locking |-> locking, mutex |-> 0,
     pc |-> [i \in Callers |-> "idle"], req |-> [i \in Callers |-> NoReq]]

NoCapture == [addr |-> NoAddr, vals |-> <<>>]

InitConn ==
    /\ conn = NoConn
    /\ handle = "none"
    /\ sel = NoAddr
    /\ dev = InitDev
    /\ call = Call("none", 0, 0, <<>>, NilOpts, Nil, <<>>)
    /\ log = <<>>
    /\ written = [a \in Addrs |-> [r \in Regs |-> NoWrite]]
    /\ captured = NoCapture

\* One goroutine owns the Conn.
Init == InitConn /\ callers = NoCallers(FALSE)

\* A behaviour is the life of one Conn: one call of an open function, then
\* operations on the Conn it returned, until its Close.
CanOpen == call.op = "none"
IsOpen == conn.valid /\ handle = "open"

\* What an open function read from the backup registers, taken from the
\* byte reads it issued: the value each register returned last and the
\* address the handle pointed at for them.  Only open functions open a file.
Capture(l) ==
    LET reads == {i \in DOMAIN l :
                    /\ l[i].sys = "ioctl" /\ l[i].code = i2cSMBus
                    /\ l[i].x.rw = i2cSMBusRead /\ l[i].err = Nil}
        last(r) == CHOOSE i \in reads :
                      l[i].x.cmd = r /\ \A j \in reads : l[j].x.cmd = r => j <= i
    IN IF l = <<>> \/ l[1].sys # "open" THEN captured
       ELSE IF reads = {} THEN NoCapture
       ELSE [addr |-> l[CHOOSE i \in reads : TRUE].dev,
             vals |-> [r \in {l[i].x.cmd : i \in reads} |-> l[last(r)].out[1]]]

\* The state after an operation that returned the world w.
Ran(w) ==
    /\ handle' = w.handle
    /\ sel' = w.sel
    /\ dev' = w.dev
    /\ log' = w.log
    /\ captured' = Capture(w.log)
    /\ callers' = callers

\* The history after a write of `data` in size class len that returned err.
Wrote(err, a, reg, len, data) ==
    written' = IF err = Nil
               THEN [written EXCEPT ![a][reg] = [len |-> len, data |-> data]]
               ELSE written

DoOpenWithOptions(D) ==
    /\ CanOpen
    /\ \E a \in Addrs, opts \in AllOptions(D.regs), closeOk \in BOOLEAN, order \in RegOrders :
         \E fails \in FailTwo(MaxCalls(opts.BackupRestoreRegs)) :
            LET o == OpenWithOptions(World, fails, a, opts, closeOk, order)
            IN /\ Ran(o.w)
               /\ written' = written
               /\ conn' = o.c
               /\ call' = Call("OpenWithOptions", a, 0, <<>>, opts, o.err, <<>>)

DoOpenFileWithOptions(D) ==
    /\ CanOpen
    /\ \E opts \in AllOptions(D.regs), fails \in FailOne(1) :
         LET o == OpenFileWithOptions(World, fails, opts)
         IN /\ Ran(o.w)
            /\ written' = written
            /\ conn' = o.c
            /\ call' = Call("OpenFileWithOptions", 0, 0, <<>>, opts, o.err, <<>>)

DoOpen(D) ==
    /\ CanOpen
    /\ \E a \in Addrs, closeOk \in BOOLEAN, fails \in FailOne(2) :
         LET o == Open(World, fails, a, closeOk, <<>>)
         IN /\ Ran(o.w)
            /\ written' = written
            /\ conn' = o.c
            /\ call' = Call("Open", a, 0, <<>>, NilOpts, o.err, <<>>)

DoOpenFile(D) ==
    /\ CanOpen
    /\ \E fails \in FailOne(1) :
         LET o == OpenFile(World, fails)
         IN /\ Ran(o.w)
            /\ written' = written
            /\ conn' = o.c
            /\ call' = Call("OpenFile", 0, 0, <<>>, NilOpts, o.err, <<>>)

DoLegacyOpen(D) ==
    /\ CanOpen
    /\ \E a \in Addrs, fails \in FailOne(2) :
         LET o == LegacyOpen(World, fails, a)
         IN /\ Ran(o.w)
            /\ written' = written
            /\ conn' = o.c
            /\ call' = Call("LegacyOpen", a, 0, <<>>, NilOpts, o.err, <<>>)

DoClose(D) ==
    /\ IsOpen
    /\ \E closeOk \in BOOLEAN, order \in RegOrders :
         \E fails \in FailOne(2 * Cardinality(DOMAIN conn.backupRegs)) :
            LET r == Close(conn, World, fails, closeOk, order)
            IN /\ Ran(r.w)
               /\ written' = written
               /\ conn' = conn
               /\ call' = Call("Close", conn.backupaddr, 0, <<>>, NilOpts, r.err, <<>>)

\* SetAddr that also makes the address the one Close restores to.
DoSetAddrRebinds(D) ==
    /\ IsOpen
    /\ \E a \in Addrs, fails \in FailOne(1) :
         LET r == SetAddr(conn, World, fails, a)
         IN /\ Ran(r.w)
            /\ written' = written
            /\ conn' = IF r.err = Nil THEN [conn EXCEPT !.backupaddr = a] ELSE conn
            /\ call' = Call("SetAddr", a, 0, <<>>, NilOpts, r.err, <<>>)

DoSetAddr(D) ==
    /\ IsOpen
    /\ \E a \in Addrs, fails \in FailOne(1) :
         LET r == SetAddr(conn, World, fails, a)
         IN /\ Ran(r.w)
            /\ written' = written
            /\ conn' = conn
            /\ call' = Call("SetAddr", a, 0, <<>>, NilOpts, r.err, <<>>)

DoReadReg(D) ==
    /\ IsOpen
    /\ \E a \in Addrs, reg \in D.regs, fails \in FailOne(2) :
         LET r == ReadReg(conn, World, fails, a, reg)
         IN /\ Ran(r.w)
            /\ written' = written
            /\ conn' = conn
            /\ call' = Call("ReadReg", a, reg, <<>>, NilOpts, r.err, <<r.v>>)

\* WriteReg that keeps the backup map up to date with what it wrote.
DoWriteRegTracksBackup(D) ==
    /\ IsOpen
    /\ \E a \in Addrs, reg \in D.regs, v \in Bytes, fails \in FailOne(2) :
         LET r == WriteReg(conn, World, fails, a, reg, v)
         IN /\ Ran(r.w)
            /\ Wrote(r.err, a, reg, i2cSMBusByteData, <<v>>)
            /\ conn' = IF r.err = Nil /\ reg \in DOMAIN conn.backupRegs
                       THEN [conn EXCEPT !.backupRegs[reg] = v]
                       ELSE conn
            /\ call' = Call("WriteReg", a, reg, <<v>>, NilOpts, r.err, <<>>)

DoWriteReg(D) ==
    /\ IsOpen
    /\ \E a \in Addrs, reg \in D.regs, v \in Bytes, fails \in FailOne(2) :
         LET r == WriteReg(conn, World, fails, a, reg, v)
         IN /\ Ran(r.w)
            /\ Wrote(r.err, a, reg, i2cSMBusByteData, <<v>>)
            /\ conn' = conn
            /\ call' = Call("WriteReg", a, reg, <<v>>, NilOpts, r.err, <<>>)

DoReadWord(D) ==
    /\ IsOpen
    /\ \E a \in Addrs, reg \in D.regs, fails \in FailOne(2) :
         LET r == ReadWord(conn, World, fails, a, reg)
         IN /\ Ran(r.w)
            /\ written' = written
            /\ conn' = conn
            /\ call' = Call("ReadWord", a, reg, <<>>, NilOpts, r.err, <<r.v>>)

DoWriteWord(D) ==
    /\ IsOpen
    /\ \E a \in Addrs, reg \in D.regs, v \in Words, fails \in FailOne(2) :
         LET r == WriteWord(conn, World, fails, a, reg, v)
         IN /\ Ran(r.w)
            /\ Wrote(r.err, a, reg, i2cSMBusWordData, <<v>>)
            /\ conn' = conn
            /\ call' = Call("WriteWord", a, reg, <<v>>, NilOpts, r.err, <<>>)

DoReadBlockData(D) ==
    /\ IsOpen
    /\ \E a \in Addrs, reg \in D.regs, n \in D.lens, fails \in FailOne(2) :
         \E rep \in {n % 256} \cup ReportedLens :
            LET buf == ReadBuffer(n)
                r == ReadBlockData(conn, World, fails, a, reg, buf, rep)
            IN /\ Ran(r.w)
               /\ written' = written
               /\ conn' = conn
               /\ call' = Call("ReadBlockData", a, reg, buf, NilOpts, r.err, r.v)

DoWriteBlockData(D) ==
    /\ IsOpen
    /\ \E a \in Addrs, reg \in D.regs, n \in D.lens, fails \in FailOne(2) :
         LET buf == WriteBuffer(n)
             r == WriteBlockData(conn, World, fails, a, reg, buf)
         IN /\ Ran(r.w)
            /\ Wrote(r.err, a, reg, i2cSMBusI2CBlockData, buf)
            /\ conn' = conn
            /\ call' = Call("WriteBlockData", a, reg, buf, NilOpts, r.err, r.v)

(***************************************************************************)
(* Goroutines sharing one Conn.  ReadReg and WriteReg are two system calls *)
(* each, c.addr and then the transfer, and the Conn holds no lock: another  *)
(* goroutine's call can run between the two.  Goroutines that serialise     *)
(* (callers.locking) take one mutex before the call and release it when it *)
(* returns.                                                                *)
(***************************************************************************)
SharedOps == {"ReadReg", "WriteReg"}
Stepped(w) ==
    /\ handle' = w.handle
    /\ sel' = w.sel
    /\ dev' = w.dev
    /\ log' = w.log
    /\ conn' = conn
    /\ captured' = captured

\* A goroutine that gives the mutex back as soon as c.addr has returned.
CallerSelectUnlocks(i) ==
    /\ IsOpen
    /\ callers.pc[i] = "idle"
    /\ callers.locking => callers.mutex = 0
    /\ \E op \in SharedOps, a \in Addrs, reg \in BlockRegs, fails \in FailOne(1) :
         LET w == addr(conn, World, fails, a)
             failed == LastErr(w) # Nil
         IN /\ Stepped(w)
            /\ written' = written
            /\ call' = Call(op, a, reg, <<>>, NilOpts, LastErr(w), <<>>)
            /\ callers' = [callers EXCEPT
                             !.pc[i] = IF failed THEN "idle" ELSE "selected",
                             !.req[i] = IF failed THEN NoReq
                                        ELSE [op |-> op, addr |-> a, reg |-> reg],
                             !.mutex = 0]

\* Goroutine i enters ReadReg or WriteReg and runs it up to the return of
\* c.addr; a failed c.addr ends the call.
CallerSelect(i) ==
    /\ IsOpen
    /\ callers.pc[i] = "idle"
    /\ callers.locking => callers.mutex = 0
    /\ \E op \in SharedOps, a \in Addrs, reg \in BlockRegs, fails \in FailOne(1) :
         LET w == addr(conn, World, fails, a)
             failed == LastErr(w) # Nil
         IN /\ Stepped(w)
            /\ written' = written
            /\ call' = Call(op, a, reg, <<>>, NilOpts, LastErr(w), <<>>)
            /\ callers' = [callers EXCEPT
                             !.pc[i] = IF failed THEN "idle" ELSE "selected",
                             !.req[i] = IF failed THEN NoReq
                                        ELSE [op |-> op, addr |-> a, reg |-> reg],
                             !.mutex = IF callers.locking /\ ~failed THEN i ELSE 0]

\* Goroutine i runs the rest of its call: the transfer, and the return.
CallerTransfer(i) ==
    /\ IsOpen
    /\ callers.pc[i] = "selected"
    /\ \E v \in Bytes, fails \in FailOne(1) :
         LET q == callers.req[i]
             x == IF q.op = "WriteReg"
                  THEN I2cCmd(i2cSMBusWrite, q.reg, i2cSMBusByteData, <<v>>)
                  ELSE I2cCmd(i2cSMBusRead, q.reg, i2cSMBusByteData, <<0>>)
             w == ioctlSMBus(World, fails, x, 0)
         IN /\ Stepped(w)
            /\ IF q.op = "WriteReg"
               THEN /\ Wrote(LastErr(w), q.addr, q.reg, i2cSMBusByteData, <<v>>)
                    /\ call' = Call(q.op, q.addr, q.reg, <<v>>, NilOpts, LastErr(w), <<>>)
               ELSE /\ written' = written
                    /\ call' = Call(q.op, q.addr, q.reg, <<>>, NilOpts, LastErr(w),
                                    IF LastErr(w) = Nil THEN <<LastOut(w)[1]>> ELSE <<0>>)
            /\ callers' = [callers EXCEPT !.pc[i] = "idle", !.req[i] = NoReq,
                                          !.mutex = 0]

(***************************************************************************)
(* Specifications.  Spec: a connection is opened, with or without backups, *)
(* bytes are written and addresses selected on it, and it is closed.       *)
(***************************************************************************)
Next ==
    \/ DoOpenWithOptions(Full)
    \/ DoOpenFileWithOptions(Full)
    \/ DoOpen(Full)
    \/ DoOpenFile(Full)
    \/ DoLegacyOpen(Full)
    \/ DoClose(Full)
    \/ DoSetAddr(Full)
    \/ DoWriteReg(Full)

Spec == Init /\ [][Next]_vars

\* SpecReg: bytes and words are read and written on a connection.
NextReg ==
    \/ DoOpen(Full)
    \/ DoReadReg(Full)
    \/ DoWriteReg(Full)
    \/ DoReadWord(Full)
    \/ DoWriteWord(Full)

SpecReg == Init /\ [][NextReg]_vars

\* SpecBlock: blocks are read and written on a connection, at one register
\* of every device.
NextBlock ==
    \/ DoOpen(OneReg)
    \/ DoReadBlockData(OneReg)
    \/ DoWriteBlockData(OneReg)

SpecBlock == Init /\ [][NextBlock]_vars

\* SpecAll: every operation, at one register of every device, with the
\* shortest buffers.
NextAll ==
    \/ DoOpenWithOptions(Tiny)
    \/ DoOpenFileWithOptions(Tiny)
    \/ DoOpen(Tiny)
    \/ DoOpenFile(Tiny)
    \/ DoLegacyOpen(Tiny)
    \/ DoClose(Tiny)
    \/ DoSetAddr(Tiny)
    \/ DoReadReg(Tiny)
    \/ DoWriteReg(Tiny)
    \/ DoReadWord(Tiny)
    \/ DoWriteWord(Tiny)
    \/ DoReadBlockData(Tiny)
    \/ DoWriteBlockData(Tiny)

SpecAll == Init /\ [][NextAll]_vars

\* SpecShared: two goroutines read and write bytes on one connection, in
\* some behaviours under one mutex and in the others without.
InitShared == InitConn /\ callers \in {NoCallers(locking) : locking \in BOOLEAN}

NextShared ==
    \/ DoOpen(Tiny)
    \/ \E i \in Callers : CallerSelect(i)
    \/ \E i \in Callers : CallerTransfer(i)

SpecShared == InitShared /\ [][NextShared]_vars

(***************************************************************************)
(* Properties.                                                             *)
(***************************************************************************)
IsSelect(e) == e.sys = "ioctl" /\ e.code \in {i2cSlave, i2cSlaveForce}
IsTransfer(e) == e.sys = "ioctl" /\ e.code = i2cSMBus
IsRestoreWrite(e) ==
    IsTransfer(e) /\ e.x.rw = i2cSMBusWrite /\ e.x.len = i2cSMBusByteData
IsBackupRead(e) ==
    IsTransfer(e) /\ e.x.rw = i2cSMBusRead /\ e.x.len = i2cSMBusByteData
BlockOps == {"ReadBlockData", "WriteBlockData"}
RegOps == {"ReadReg", "WriteReg", "ReadWord", "WriteWord"}
Listed == call.opts.BackupRestoreRegs
\* The position of the first failed call of the operation, 0 if none failed.
FirstFailure ==
    IF \A i \in DOMAIN log : log[i].err = Nil THEN 0
    ELSE CHOOSE i \in DOMAIN log :
            log[i].err # Nil /\ \A j \in 1..(i - 1) : log[j].err = Nil

\* C1: a block operation on a buffer longer than 32 bytes returns the
\* size-limit error and issues no ioctl at all, neither an address-select
\* nor a transfer.
C1_TooLongNoIoctl ==
    (call.op \in BlockOps /\ Len(call.arg) > i2cSMBusBlockMax)
        => (call.err = errSMBusBlockDataMax /\ log = <<>>)

C1_Witness ==
    /\ call.op = "WriteBlockData"
    /\ Len(call.arg) = i2cSMBusBlockMax + 1
    /\ call.err = errSMBusBlockDataMax
    /\ log = <<>>

\* C2 as stated: every invocation of ReadReg, WriteReg, ReadWord and
\* WriteWord issues exactly one address-select followed by exactly one
\* transfer.
C2_AlwaysSelectThenTransfer ==
    call.op \in RegOps
        => (Len(log) = 2 /\ IsSelect(log[1]) /\ IsTransfer(log[2]))

\* C2 as amended: every invocation of ReadReg, WriteReg, ReadWord and
\* WriteWord issues exactly one address-select, for the address it was
\* given; when that call succeeds exactly one transfer follows it, for the
\* register it was given, and when it fails no transfer is issued.
C2_SelectThenTransfer ==
    call.op \in RegOps
        => /\ Len(log) >= 1
           /\ IsSelect(log[1])
           /\ log[1].arg = call.addr
           /\ IF log[1].err = Nil
              THEN Len(log) = 2 /\ IsTransfer(log[2]) /\ log[2].x.cmd = call.reg
              ELSE Len(log) = 1 /\ call.err = log[1].err

C2_Witness ==
    /\ call.op = "WriteWord"
    /\ call.err = Nil
    /\ Len(log) = 2
    /\ IsSelect(log[1]) /\ IsTransfer(log[2])

\* The address the last operation is aimed at.
Target == IF call.op = "Close" THEN conn.backupaddr ELSE call.addr

\* C3: every SMBus transfer, of whatever operation, comes right after a
\* successful address-select for the address the operation is aimed at
\* (for a restore write of Close, the backup address), and is dispatched
\* while the handle points at that address.
C3_TransferAfterSelect ==
    \A i \in DOMAIN log :
        IsTransfer(log[i])
            => /\ i > 1
               /\ IsSelect(log[i - 1])
               /\ log[i - 1].err = Nil
               /\ log[i - 1].arg = Target
               /\ log[i].dev = Target

\* A restore write of Close that succeeds at the backup address although the
\* handle pointed at the other address when Close was called.
C3_Witness ==
    /\ call.op = "Close"
    /\ Len(log) = 3
    /\ IsSelect(log[1]) /\ log[1].dev # log[1].arg /\ log[1].dev \in Addrs
    /\ IsTransfer(log[2]) /\ log[2].err = Nil /\ log[2].dev = conn.backupaddr

\* C4: OpenWithOptions with a non-empty backup list whose calls all succeed
\* returns an open Conn after reading every listed register once, in the
\* order of the list, at the address it was given; the backup map holds,
\* for exactly the listed registers, the value read, and the backup address
\* is the address given.
C4_BackupCaptured ==
    (call.op = "OpenWithOptions" /\ call.err = Nil /\ GoLen(Listed) > 0)
        => /\ IsOpen
           /\ Len(log) = 2 + 2 * Len(Listed)
           /\ \A i \in 1..Len(Listed) :
                 /\ IsSelect(log[1 + 2 * i]) /\ log[1 + 2 * i].arg = call.addr
                 /\ IsBackupRead(log[2 + 2 * i])
                 /\ log[2 + 2 * i].x.cmd = Listed[i]
                 /\ log[2 + 2 * i].dev = call.addr
                 /\ Listed[i] \in DOMAIN conn.backupRegs
                 /\ conn.backupRegs[Listed[i]] = log[2 + 2 * i].out[1]
           /\ DOMAIN conn.backupRegs = {Listed[i] : i \in 1..Len(Listed)}
           /\ conn.backupaddr = call.addr

C4_Witness ==
    /\ call.op = "OpenWithOptions"
    /\ call.err = Nil
    /\ GoLen(Listed) = 2 /\ Listed[1] # Listed[2]
    /\ IsOpen
    /\ Cardinality(DOMAIN conn.backupRegs) = 2

\* OpenWithOptions got as far as its backup reads, and one of them failed.
BackupReadFailed ==
    /\ call.op = "OpenWithOptions"
    /\ GoLen(Listed) > 0
    /\ FirstFailure >= 3

\* C5: when a backup read of OpenWithOptions fails (its address-select or
\* its transfer), OpenWithOptions returns that error and no Conn, no
\* register is read afterwards, and the handle it opened is closed, once.
C5_FailedBackupClosesHandle ==
    BackupReadFailed
        => /\ call.err = log[FirstFailure].err
           /\ conn = NoConn
           /\ \A i \in (FirstFailure + 1)..Len(log) : ~IsBackupRead(log[i])
           /\ Cardinality({i \in DOMAIN log : IsBackupRead(log[i]) /\ log[i].err = Nil})
                  = (FirstFailure - 3) \div 2
           /\ handle = "closed"
           /\ Last(log).sys = "close"
           /\ Cardinality({i \in DOMAIN log : log[i].sys = "close"}) = 1

\* The read of the second listed register fails at its transfer.
C5_Witness ==
    /\ BackupReadFailed
    /\ FirstFailure = 6
    /\ IsBackupRead(log[6])
    /\ handle = "closed"
    /\ conn = NoConn

\* Close ran on a Conn with backups and every restore write succeeded.
AllIoctlsSucceeded == \A i \in DOMAIN log : log[i].sys = "ioctl" => log[i].err = Nil
RestoredCloseCase ==
    /\ call.op = "Close"
    /\ DOMAIN conn.backupRegs # {}
    /\ AllIoctlsSucceeded

\* C6: a Close of a Conn with backups whose restore writes all succeed
\* issues exactly one WriteReg per backed-up register, of the backed-up
\* value, and then closes the handle: the close is the last call and the
\* only close.
C6_RestoreThenClose ==
    RestoredCloseCase
        => /\ Len(log) = 2 * Cardinality(DOMAIN conn.backupRegs) + 1
           /\ \A k \in DOMAIN conn.backupRegs :
                 \E i \in 1..Cardinality(DOMAIN conn.backupRegs) :
                    /\ IsSelect(log[2 * i - 1]) /\ log[2 * i - 1].arg = conn.backupaddr
                    /\ IsRestoreWrite(log[2 * i])
                    /\ log[2 * i].x.cmd = k
                    /\ log[2 * i].x.ptr = <<conn.backupRegs[k]>>
           /\ Last(log).sys = "close"
           /\ Cardinality({i \in DOMAIN log : log[i].sys = "close"}) = 1
           /\ handle = "closed"

C6_Witness ==
    /\ RestoredCloseCase
    /\ Cardinality(DOMAIN conn.backupRegs) = 2
    /\ Len(log) = 5
    /\ handle = "closed"

\* Close ran and one of its restore calls failed.
RestoreFailedCase ==
    /\ call.op = "Close"
    /\ \E i \in DOMAIN log : log[i].sys = "ioctl" /\ log[i].err # Nil

\* C7: when a restore write of Close fails, that call is the last restore
\* call: the handle close follows it directly, the handle is closed, and
\* Close returns what the handle close returned.
C7_RestoreFailureSwallowed ==
    RestoreFailedCase
        => /\ FirstFailure = Len(log) - 1
           /\ Last(log).sys = "close"
           /\ handle = "closed"
           /\ call.err = Last(log).err

\* The first of two restore writes fails and Close returns success.
C7_Witness ==
    /\ RestoreFailedCase
    /\ Cardinality(DOMAIN conn.backupRegs) = 2
    /\ Len(log) <= 3
    /\ call.err = Nil

\* C8: OpenFileWithOptions with a non-empty backup list returns the
\* configuration error and no Conn without any system call: the device is
\* not opened and no ioctl is issued.
C8_BackupListRejected ==
    (call.op = "OpenFileWithOptions" /\ GoLen(Listed) > 0)
        => /\ call.err = errBackupNotSupported
           /\ conn = NoConn
           /\ log = <<>>
           /\ handle = "none"

C8_Witness ==
    /\ call.op = "OpenFileWithOptions"
    /\ GoLen(Listed) > 0
    /\ call.err = errBackupNotSupported
    /\ handle = "none"

\* C9: a ReadBlockData that succeeds, into a buffer as long as the buffer
\* of the last WriteBlockData completed at the same address and register,
\* leaves the caller's buffer equal to the written one, for every length
\* of 0 to 32.
C9_BlockRoundTrip ==
    (/\ call.op = "ReadBlockData"
     /\ call.err = Nil
     /\ written[call.addr][call.reg].len = i2cSMBusI2CBlockData
     /\ Len(written[call.addr][call.reg].data) = Len(call.arg))
        => call.ret = written[call.addr][call.reg].data

\* 32 bytes read back into a buffer that held other bytes.
C9_Witness ==
    /\ call.op = "ReadBlockData"
    /\ call.err = Nil
    /\ Len(call.arg) = i2cSMBusBlockMax
    /\ written[call.addr][call.reg].len = i2cSMBusI2CBlockData
    /\ call.ret = written[call.addr][call.reg].data
    /\ call.ret # call.arg

\* C10: a ReadReg that succeeds returns the byte of the last WriteReg
\* completed at the same address and register, and a ReadWord the word of
\* the last WriteWord, when no other write was completed there since,
\* whatever was read or written elsewhere in between.
C10_RegisterRoundTrip ==
    /\ (/\ call.op = "ReadReg"
         /\ call.err = Nil
         /\ written[call.addr][call.reg].len = i2cSMBusByteData)
            => call.ret = written[call.addr][call.reg].data
    /\ (/\ call.op = "ReadWord"
         /\ call.err = Nil
         /\ written[call.addr][call.reg].len = i2cSMBusWordData)
            => call.ret = written[call.addr][call.reg].data

\* A word read back after writes to the other address and the other
\* register.
C10_Witness ==
    /\ call.op = "ReadWord"
    /\ call.err = Nil
    /\ written[call.addr][call.reg].len = i2cSMBusWordData
    /\ call.ret = written[call.addr][call.reg].data
    /\ \E a \in Addrs \ {call.addr} : written[a][call.reg].len = i2cSMBusByteData
    /\ \E r \in Regs \ {call.reg} : written[call.addr][r].len = i2cSMBusWordData

\* The last system call was the transfer of a goroutine's ReadReg or
\* WriteReg, and the handle pointed at another address than the one that
\* goroutine had asked for.
Misdirected ==
    /\ call.op \in SharedOps
    /\ log # <<>>
    /\ IsTransfer(Last(log))
    /\ Last(log).dev # call.addr

\* C11: when the goroutines that share a handle hold one mutex across the
\* address-select and the transfer of each call, every transfer is
\* dispatched while the handle's selected address is the one its caller
\* asked for; a transfer dispatched at another caller's address happens
\* only, and does happen, when they do not serialise.
C11_SerialisedTransfersHitOwnAddress == Misdirected => ~callers.locking

C11_Witness ==
    /\ Misdirected
    /\ ~callers.locking
    /\ call.op = "WriteReg"
    /\ call.err = Nil
    /\ Last(log).dev \in Addrs
    /\ dev[Last(log).dev][call.reg] = call.arg
    /\ written[call.addr][call.reg].data = call.arg
    /\ dev[call.addr][call.reg] # call.arg

OpenOps == {"OpenWithOptions", "OpenFileWithOptions", "Open", "OpenFile", "LegacyOpen"}
\* Whether the Conn was opened with Force: what the open function was given,
\* and after it what the Conn carries.
OpenedForced ==
    IF call.op \in {"OpenWithOptions", "OpenFileWithOptions"} THEN call.opts.Force
    ELSE IF call.op \in OpenOps THEN FALSE
    ELSE conn.force
SelectCodesFollowForce ==
    /\ \A i \in DOMAIN log :
          IsSelect(log[i])
              => log[i].code = IF OpenedForced THEN i2cSlaveForce ELSE i2cSlave
    /\ conn.valid => conn.force = OpenedForced

\* C12: from its open function to its Close, every address-select a
\* Conn issues uses i2cSlaveForce if it was opened with Force and i2cSlave
\* otherwise, and no later call changes which; Open, OpenFile and the
\* legacy Open never use i2cSlaveForce.
C12_ForceDecidesSelectCode ==
    [][SelectCodesFollowForce' /\ (conn.valid => conn'.force = conn.force)]_vars

C12_Witness ==
    /\ call.op = "Close"
    /\ conn.force
    /\ Len(log) = 3
    /\ IsSelect(log[1]) /\ log[1].code = i2cSlaveForce
    /\ IsRestoreWrite(log[2]) /\ log[2].err = Nil

SameIoctl(e, f) ==
    e.sys = "ioctl" /\ f.sys = "ioctl" /\ e.code = f.code /\ e.arg = f.arg /\ e.x = f.x
SelectFailed == log # <<>> /\ IsSelect(log[1]) /\ log[1].err # Nil
\* An earlier ioctl of the operation failed and the same ioctl was issued
\* again.
Reissued(j) == \E i \in 1..(j - 1) : log[i].err # Nil /\ SameIoctl(log[i], log[j])

\* C13: a register, word or block operation whose address-select fails
\* returns that error as it is, issues no transfer and does not select
\* again; and no operation at all issues an ioctl a second time after it
\* failed.
C13_NoIoctlRepeatedAfterFailure ==
    /\ (call.op \in RegOps \cup BlockOps /\ SelectFailed)
           => (call.err = log[1].err /\ Len(log) = 1)
    /\ \A j \in DOMAIN log : ~Reissued(j)

\* The failing case: the address-select of a backup read of OpenWithOptions
\* fails, and the Close it then runs selects the same address again for the
\* restore write of a register read before.
C13_Witness ==
    /\ call.op = "OpenWithOptions"
    /\ call.err = "EBUSY"
    /\ \E i \in DOMAIN log, j \in DOMAIN log :
          /\ i < j /\ j < Len(log)
          /\ IsSelect(log[i]) /\ log[i].err # Nil
          /\ SameIoctl(log[i], log[j]) /\ log[j].err = Nil
          /\ IsRestoreWrite(log[j + 1]) /\ log[j + 1].err = Nil

\* C14: every restore write of Close carries, for a register read at open
\* time, the value that read returned, and is dispatched at the address
\* those reads were sent to, whatever was written and whichever address
\* was selected in between; when the ioctls of Close all succeed, every
\* such register is written and holds that value afterwards.
C14_RestoreWritesCapturedValues ==
    call.op = "Close"
        => /\ \A i \in DOMAIN log :
                 IsTransfer(log[i])
                     => /\ IsRestoreWrite(log[i])
                        /\ log[i].x.cmd \in DOMAIN captured.vals
                        /\ log[i].x.ptr = <<captured.vals[log[i].x.cmd]>>
                        /\ log[i].dev = captured.addr
           /\ AllIoctlsSucceeded
                 => \A k \in DOMAIN captured.vals :
                       /\ \E i \in DOMAIN log : IsTransfer(log[i]) /\ log[i].x.cmd = k
                       /\ dev[captured.addr][k] = <<captured.vals[k]>>

\* Close after the caller wrote another value to a backed-up register and
\* left the handle pointing at another device.
C14_Witness ==
    /\ call.op = "Close"
    /\ AllIoctlsSucceeded
    /\ Len(log) = 3
    /\ log[1].dev \in Addrs /\ log[1].dev # captured.addr
    /\ \E k \in DOMAIN captured.vals :
          /\ written[captured.addr][k].len = i2cSMBusByteData
          /\ written[captured.addr][k].data # <<captured.vals[k]>>
          /\ dev[captured.addr][k] = <<captured.vals[k]>>

\* C15: every transfer of WriteBlockData and ReadBlockData is of size class
\* i2cSMBusI2CBlockData, for the register asked for, with a scratch buffer
\* of len(buf) + 1 bytes whose byte 0 is len(buf), at most 32; a write
\* has direction i2cSMBusWrite and the caller's bytes after byte 0, in
\* order, and a read has direction i2cSMBusRead.
C15_BlockScratchBuffer ==
    call.op \in BlockOps
        => \A i \in DOMAIN log :
              IsTransfer(log[i])
                  => /\ log[i].x.len = i2cSMBusI2CBlockData
                     /\ log[i].x.cmd = call.reg
                     /\ Len(log[i].x.ptr) = Len(call.arg) + 1
                     /\ log[i].x.ptr[1] = Len(call.arg)
                     /\ log[i].x.ptr[1] \in 0..i2cSMBusBlockMax
                     /\ call.op = "WriteBlockData"
                           => /\ log[i].x.rw = i2cSMBusWrite
                              /\ Tail(log[i].x.ptr) = call.arg
                     /\ call.op = "ReadBlockData" => log[i].x.rw = i2cSMBusRead

C15_Witness ==
    /\ call.op = "WriteBlockData"
    /\ Len(call.arg) = i2cSMBusBlockMax
    /\ Len(log) = 2
    /\ IsTransfer(log[2])
    /\ Len(log[2].x.ptr) = i2cSMBusBlockMax + 1
    /\ log[2].x.ptr[1] = i2cSMBusBlockMax
    /\ log[2].x.ptr[i2cSMBusBlockMax + 1] = call.arg[i2cSMBusBlockMax]

\* A block read was dispatched and its transfer succeeded.
BlockReadTransferred ==
    /\ call.op = "ReadBlockData"
    /\ Len(log) = 2
    /\ IsTransfer(log[2])
    /\ log[2].err = Nil

\* C16: a ReadBlockData of at most 32 bytes whose transfer succeeds
\* returns no error and the bytes 1..len(buf) of the scratch buffer in the
\* caller's buffer, whether or not byte 0, the length the device reports,
\* is len(buf).
C16_ReportedLengthIgnored ==
    BlockReadTransferred
        => /\ call.err = Nil
           /\ call.ret = SubSeq(log[2].out, 2, Len(call.arg) + 1)

C16_Witness ==
    /\ BlockReadTransferred
    /\ Len(call.arg) = MaxSmallLen
    /\ log[2].out[1] # Len(call.arg)
    /\ call.err = Nil
    /\ call.ret # call.arg

FrameOps == RegOps \cup BlockOps \cup {"SetAddr"}

\* C17: a call of ReadReg, WriteReg, ReadWord, WriteWord, ReadBlockData,
\* WriteBlockData or SetAddr, whether it succeeds or fails, leaves the
\* Conn as it was (force flag, backup map, backup address) and the handle
\* as open or closed as it was; a ReadBlockData that fails leaves the
\* caller's buffer as it was.
C17_OperationsLeaveConnUnchanged ==
    [][call'.op \in FrameOps
          => /\ conn'.force = conn.force
             /\ conn'.backupRegs = conn.backupRegs
             /\ conn'.backupaddr = conn.backupaddr
             /\ conn'.valid = conn.valid
             /\ handle' = handle
             /\ (call'.op = "ReadBlockData" /\ call'.err # Nil)
                   => call'.ret = call'.arg]_vars

\* A ReadBlockData whose transfer failed, on a forced Conn with a backup.
C17_Witness ==
    /\ call.op = "ReadBlockData"
    /\ Len(log) = 2
    /\ log[2].err # Nil
    /\ call.err = log[2].err
    /\ call.ret = call.arg
    /\ Len(call.arg) > 0
    /\ conn.force
    /\ DOMAIN conn.backupRegs # {}
    /\ conn.backupaddr \in Addrs
    /\ handle = "open"

\* C18: when an open function returns an error, the handle it opened, if
\* it opened one, has been closed.
C18_FailedOpenLeavesNoHandle ==
    (call.op \in OpenOps /\ call.err # Nil) => handle # "open"

\* The failing case: the legacy Open, whose address-select failed.
C18_Witness ==
    /\ call.op = "LegacyOpen"
    /\ Len(log) = 2
    /\ log[1].sys = "open" /\ log[1].err = Nil
    /\ IsSelect(log[2]) /\ log[2].err # Nil
    /\ call.err = log[2].err
    /\ conn = NoConn
    /\ handle = "open"

\* C19: an OpenWithOptions that returns an error has issued no write
\* transfer, not even for the registers it had read before the failure.
C19_FailedOpenWritesNothing ==
    (call.op = "OpenWithOptions" /\ call.err # Nil)
        => \A i \in DOMAIN log : IsTransfer(log[i]) => log[i].x.rw # i2cSMBusWrite

\* The failing case: the second backup read fails and the register read
\* first is written on the way out.
C19_Witness ==
    /\ BackupReadFailed
    /\ call.err # Nil
    /\ conn = NoConn
    /\ \E i \in DOMAIN log :
          /\ i > FirstFailure
          /\ IsRestoreWrite(log[i])
          /\ log[i].err = Nil
          /\ log[i].x.cmd = Listed[1]
    /\ handle = "closed"

====
